---- MODULE Spec2Model ----
(***************************************************************************)
(* Face-Analyzer: the persistent face record store (database/storage.rs). *)
(*                                                                         *)
(* The store pairs one row of the Postgres table `faces` with one image    *)
(* file under image_storage_path.  Every async method of Database is a     *)
(* sequence of awaits; each await (one file-system call or one SQL         *)
(* statement) is one atomic step here, and concurrent callers interleave   *)
(* between steps.  Timestamps are counted in whole ticks of the database's *)
(* resolution.                                                             *)
(***************************************************************************)
EXTENDS Integers, Sequences, FiniteSets, TLC

VARIABLES
    faces,   \* the rows of table `faces` (a set of row records)
    files,   \* the artifact directory: storage path -> content or Absent
    pc,      \* per caller: the await it is suspended at
    call,    \* per caller: the method it is in and its arguments
    res,     \* per caller: the Result the method returned
    local,   \* per caller: the method's local variables
    env,     \* the run: which callers are active, which face_ids they use
    hub,     \* the WsManager, its connections' channels and actors
    cmp,     \* the EmbeddingComparator's inputs and the results it returned
    gen      \* the EmbeddingGenerator's call: backend output and result

vars == <<faces, files, pc, call, res, local, env, hub, cmp, gen>>

-----------------------------------------------------------------------------
(* Bounds and input sets                                                   *)

\* Largest timestamp / clock value the callers supply.
MaxTime == 3

\* Largest retention period (days) passed to cleanup_old_faces.
MaxDays == 1

\* Concurrent callers of the Database methods.
Procs == {"p1", "p2"}

\* face_id strings callers pass: "u1" and "u2" are UUIDs in canonical
\* (lowercase, hyphenated) form, "U1" is u1 written in upper case, and
\* "not-a-uuid" does not parse.
IdStrings == {"u1", "U1", "u2", "not-a-uuid"}

Absent == "absent"

\* Option<T>: None is << >>, Some(x) is <<x>>.
None == << >>
Some(x) == <<x>>
IsSome(o) == Len(o) = 1
Unwrap(o) == o[1]

\* Upload files the callers name as metadata.source_image, and their content.
\* <<"uploads", "gone">> names a file that does not exist.
SourceContent ==
    [s \in {<<"uploads", "1">>, <<"uploads", "2">>, <<"uploads", "gone">>} |->
        CASE s = <<"uploads", "1">> -> "img1"
          [] s = <<"uploads", "2">> -> "img2"
          [] OTHER -> Absent]

SourcePaths == DOMAIN SourceContent

Contents == {"img1", "img2"}

\* Uuid::parse_str: the Uuid a string denotes (None when it is malformed).
\* A Uuid is represented by its canonical string.
ParseUuid(s) ==
    CASE s = "u1" -> Some("u1")
      [] s = "U1" -> Some("u1")
      [] s = "u2" -> Some("u2")
      [] OTHER -> None

\* Uuid::to_string: the canonical (lowercase hyphenated) form.
UuidToString(u) == u

Uuids == {"u1", "u2"}

\* Path::new(image_storage_path).join(format!("{}.jpg", face_id)):
\* the artifact path is built from the face_id string as given.
StoragePath(face_id) == <<"data/faces", face_id, ".jpg">>

ArtifactPaths == {StoragePath(i) : i \in IdStrings}

-----------------------------------------------------------------------------
(* Records                                                                 *)

FaceMetadata(name, tags, timestamp, source_image, confidence) ==
    [name |-> name, tags |-> tags, timestamp |-> timestamp,
     source_image |-> source_image, confidence |-> confidence]

FaceEmbedding(face_id, embedding, metadata) ==
    [face_id |-> face_id, embedding |-> embedding, metadata |-> metadata]

\* FaceUpdates { name, tags, confidence }: each an Option.
FaceUpdates(name, tags, confidence) ==
    [name |-> name, tags |-> tags, confidence |-> confidence]

NoUpdates == FaceUpdates(None, None, None)

\* SearchQuery { name, tags, start_date, end_date, min_confidence }.
SearchQuery(name, tags, start_date, end_date, min_confidence) ==
    [name |-> name, tags |-> tags, start_date |-> start_date,
     end_date |-> end_date, min_confidence |-> min_confidence]

NoQuery == SearchQuery(None, None, None, None, None)

\* Names are strings, modelled as sequences of characters.
NameAl == <<"A", "l">>
NameBo == <<"b", "o">>

\* Confidence is an f32, modelled in percent: 100 is 1.0.  The values a
\* well-behaved caller sends, and one above 1.0.
ValidConfidences == {50, 75, 100}
Confidences == ValidConfidences \cup {150}

\* The run of a component other than the store: no caller of the store.
NoCallers ==
    [callers |-> {}, ids |-> [p \in Procs |-> {}], confidences |-> {}]

\* The records callers store.  The first profile is what the REST ingest
\* builds (no name, no tags, confidence 1.0 = 100 percent).
Profiles ==
    { [embedding |-> <<1, 0>>, name |-> None, tags |-> << >>,
       timestamp |-> 1, source_image |-> <<"uploads", "1">>, confidence |-> 100],
      [embedding |-> <<0, 1>>, name |-> Some(NameAl), tags |-> <<"vip">>,
       timestamp |-> 2, source_image |-> <<"uploads", "2">>, confidence |-> 50],
      [embedding |-> <<1, 0>>, name |-> None, tags |-> << >>,
       timestamp |-> 1, source_image |-> <<"uploads", "gone">>, confidence |-> 100],
      [embedding |-> <<1, 0>>, name |-> None, tags |-> << >>,
       timestamp |-> 1, source_image |-> <<"uploads", "1">>, confidence |-> 150] }

FaceInputs ==
    { FaceEmbedding(i, pr.embedding,
                    FaceMetadata(pr.name, pr.tags, pr.timestamp,
                                 pr.source_image, pr.confidence)) :
        i \in IdStrings, pr \in Profiles }

\* The partial updates callers send.
UpdateInputs ==
    { FaceUpdates(n, t, c) :
        n \in {None, Some(NameBo)},
        t \in {None, Some(<<"new">>)},
        c \in {None, Some(75), Some(150)} }

-----------------------------------------------------------------------------
(* Results and per-caller bookkeeping                                      *)

\* anyhow::Result of a method: ok, the error's cause, the records returned
\* (get_face, search_faces) and the count returned (cleanup_old_faces).
Ok(val, count) == [ok |-> TRUE, err |-> "", val |-> val, count |-> count]
Err(kind) == [ok |-> FALSE, err |-> kind, val |-> << >>, count |-> 0]
NoRes == [ok |-> FALSE, err |-> "pending", val |-> << >>, count |-> 0]

NoCall ==
    [op |-> "none", face_id |-> "", face |-> None, updates |-> NoUpdates,
     query |-> NoQuery, days |-> 0, now |-> 0]

\* record: the row delete_face selected; pending: the source_image values
\* cleanup_old_faces still has to remove; count: records.len(); removed:
\* whether an artifact was removed; rmFailed: whether a remove_file call
\* failed (and was logged).
NoLocal ==
    [record |-> None, pending |-> << >>, count |-> 0, removed |-> FALSE,
     rmFailed |-> FALSE]

-----------------------------------------------------------------------------
(* The embedding generator (database/embeddings.rs): data                  *)

\* embedding_size: the length D a backend output must have (scaled down
\* from 512).
EmbeddingSize == 2

\* The f32 components of a backend output.
Components == {0, 1, -1, 2}

\* The tensors the backend can return: any length up to D + 1.
RawOutputs == UNION {[1..n -> Components] : n \in 0..(EmbeddingSize + 1)}

\* What running the backend on a face gives: preprocess_image or
\* session.run fails, or outputs[0] is not an f32 tensor, or it is one.
BackendOutputs ==
    {[kind |-> k, data |-> << >>] :
        k \in {"preprocess_error", "run_error", "not_a_tensor"}}
    \cup {[kind |-> "tensor", data |-> d] : d \in RawOutputs}

NoOutput == [kind |-> "none", data |-> << >>]

\* A Result<Vec<f32>>: kind is "Ok" or the error; an Ok vector has the
\* components raw[i] / sqrt(sum_squares), all of them NaN when nan is set.
NoVector == [raw |-> << >>, sum_squares |-> 0, nan |-> FALSE]
GenOk(vector) == [kind |-> "Ok", vector |-> vector]
GenErr(kind) == [kind |-> kind, vector |-> NoVector]
GenPending == [kind |-> "pending", vector |-> NoVector]

\* No generate call yet.
GenIdle == [at |-> "idle", output |-> NoOutput, result |-> GenPending]

-----------------------------------------------------------------------------
(* The embedding comparator (database/embeddings.rs): data                 *)

\* Number of entries of the corpus passed to find_matches.
MaxCorpus == 2

\* The &[f32] slices compared: the empty slice, the all-zero vector and
\* vectors of every relative direction.  Their components are small
\* integers, so every sum and product below is exact in f32 as well.
Vectors == {<< >>, <<0, 0>>, <<1, 0>>, <<0, 1>>, <<1, 1>>, <<-1, 0>>}

\* The thresholds passed to find_matches, as fractions num/den, den > 0:
\* -1/2, 0, 1/2, 3/4.
Thresholds ==
    {[num |-> -1, den |-> 2], [num |-> 0, den |-> 1],
     [num |-> 1, den |-> 2], [num |-> 3, den |-> 4]}

\* The face_id of the i-th corpus entry.
CorpusId(i) == <<"face", i>>

\* Every corpus of at most MaxCorpus entries: each a FaceEmbedding, of which
\* find_matches reads face_id and embedding.
Corpora ==
    UNION {[1..n -> Vectors] : n \in 0..MaxCorpus}

CorpusEntry(corpus, i) == [face_id |-> CorpusId(i), embedding |-> corpus[i]]

\* No call made yet: query and corpus are set by the initial state.
CmpIdle ==
    [query |-> << >>, corpus |-> << >>,
     found |-> [t \in Thresholds |-> None], sim |-> None,
     clusters |-> [t \in Thresholds |-> None]]

\* Number of entries of the corpus passed to cluster_embeddings.
MaxCluster == 3

ClusterCorpora ==
    UNION {[1..n -> Vectors] : n \in 0..MaxCluster}

-----------------------------------------------------------------------------
(* The notification hub (api/websocket.rs): data                           *)

\* broadcast::channel(100): the number of messages a connection's channel
\* retains for a receiver that has not taken them yet (scaled down).
ChannelCapacity == 2

\* Number of broadcast calls in a run.
MaxBroadcasts == 3

\* Connection ids: the strings Uuid::new_v4() returns, each handed out once.
ConnIds == {"c1", "c2"}

\* An id no create_connection ever returned.
UnknownConn == "unknown"

\* The WsMessage variants the notify_* helpers broadcast.
MsgKinds == {"FaceDetected", "FaceDeleted"}

\* A broadcast message: its variant and the number of the broadcast call.
WsMessage(kind, seq) == [kind |-> kind, seq |-> seq]

NoHubCall == [op |-> "none", id |-> "", outcome |-> ""]

\* WsManager::new(): no connection.  Per connection id: rx is the receiver
\* of its channel ("none" before WsConnection::started subscribes, "open",
\* "ended" once the forwarding task has left its loop), buffer the messages
\* the channel retains for it, lagged whether a retained message was
\* overwritten, actor the WsConnection actor, delivered the messages handed
\* to the actor and written to the client.  sent counts the broadcasts and
\* last is the latest call on the manager.
HubNew ==
    [connections |-> {},
     created |-> {},
     rx |-> [c \in ConnIds |-> "none"],
     buffer |-> [c \in ConnIds |-> << >>],
     lagged |-> [c \in ConnIds |-> FALSE],
     actor |-> [c \in ConnIds |-> "none"],
     delivered |-> [c \in ConnIds |-> << >>],
     sent |-> 0,
     last |-> NoHubCall]

\* The state after Database::new: an empty table (CREATE TABLE IF NOT
\* EXISTS on a fresh database) and an empty image directory.
InitStore ==
    /\ faces = {}
    /\ files = [f \in ArtifactPaths |-> Absent]
    /\ pc = [p \in Procs |-> "idle"]
    /\ call = [p \in Procs |-> NoCall]
    /\ res = [p \in Procs |-> NoRes]
    /\ local = [p \in Procs |-> NoLocal]
    /\ hub = HubNew
    /\ gen = GenIdle

\* One caller at a time, every face_id string.
Init ==
    /\ InitStore
    /\ env = [callers |-> {"p1"}, ids |-> [p \in Procs |-> IdStrings],
             confidences |-> ValidConfidences]
    /\ cmp = CmpIdle

\* Two concurrent callers working on the same record.
InitConc ==
    /\ InitStore
    /\ env = [callers |-> Procs, ids |-> [p \in Procs |-> {"u1"}],
             confidences |-> ValidConfidences]
    /\ cmp = CmpIdle

-----------------------------------------------------------------------------
(* The table `faces`                                                       *)

\* A row of the table: id is the PRIMARY KEY.
Row(id, embedding, name, tags, timestamp, source_image, confidence) ==
    [id |-> id, embedding |-> embedding, name |-> name, tags |-> tags,
     timestamp |-> timestamp, source_image |-> source_image,
     confidence |-> confidence]

\* Mutant: the WHERE clause is missing, so a statement selects every row.
SelectById_NoWhere(table, id) == table

\* SELECT * FROM faces WHERE id = $1
SelectById(table, id) == {r \in table : r.id = id}

\* Mutant: the table has no primary key, so no INSERT is rejected.
ViolatesPrimaryKey_NoConstraint(table, id) == FALSE

\* id UUID PRIMARY KEY: an INSERT of a key already present is rejected.
ViolatesPrimaryKey(table, id) == SelectById(table, id) # {}

\* The closure of get_face / search_faces that rebuilds a FaceEmbedding
\* from a row.
RowToFace(r) ==
    FaceEmbedding(UuidToString(r.id), r.embedding,
                  FaceMetadata(r.name, r.tags, r.timestamp, r.source_image,
                               r.confidence))

Finish(p, result) ==
    /\ UNCHANGED env
    /\ pc' = [pc EXCEPT ![p] = "done"]
    /\ res' = [res EXCEPT ![p] = result]

Begin(p, c) ==
    /\ p \in env.callers
    /\ pc[p] = "idle"
    /\ UNCHANGED env
    /\ call' = [call EXCEPT ![p] = c]

-----------------------------------------------------------------------------
(* store_face                                                              *)

StoreCall(face) ==
    [NoCall EXCEPT !.op = "store", !.face_id = face.face_id,
                   !.face = Some(face)]

\* Mutant: the copy's error is dropped (no `?`), so the INSERT is sent even
\* when no artifact was written.
StoreCopy_ErrorIgnored(p) ==
    \E face \in {f \in FaceInputs :
                        /\ f.face_id \in env.ids[p]
                        /\ f.metadata.confidence \in env.confidences}, io \in BOOLEAN :
        LET content == SourceContent[face.metadata.source_image] IN
        /\ Begin(p, StoreCall(face))
        /\ files' = IF io /\ content # Absent
                    THEN [files EXCEPT ![StoragePath(face.face_id)] = content]
                    ELSE files
        /\ pc' = [pc EXCEPT ![p] = "st_insert"]
        /\ UNCHANGED <<faces, local, res>>

\* fs::copy(image_path, &storage_path).await? : the artifact is written
\* first; a failed copy returns the error before any SQL is sent.
StoreCopy(p) ==
    \E face \in {f \in FaceInputs :
                        /\ f.face_id \in env.ids[p]
                        /\ f.metadata.confidence \in env.confidences}, io \in BOOLEAN :
        LET content == SourceContent[face.metadata.source_image] IN
        /\ Begin(p, StoreCall(face))
        /\ IF io /\ content # Absent
           THEN /\ files' = [files EXCEPT ![StoragePath(face.face_id)] = content]
                /\ pc' = [pc EXCEPT ![p] = "st_insert"]
                /\ UNCHANGED res
           ELSE /\ Finish(p, Err("Io"))
                /\ UNCHANGED files
        /\ UNCHANGED <<faces, local>>

\* Mutant: the tags argument of the INSERT is left out.
StoreRow_TagsDropped(face, uuid) ==
    Row(uuid, face.embedding, face.metadata.name, << >>,
        face.metadata.timestamp, StoragePath(face.face_id),
        face.metadata.confidence)

\* The row store_face inserts: the key is the parsed Uuid and source_image
\* is the storage path, not the caller's metadata.source_image.
StoreRow(face, uuid) ==
    Row(uuid, face.embedding, face.metadata.name, face.metadata.tags,
        face.metadata.timestamp, StoragePath(face.face_id),
        face.metadata.confidence)

\* INSERT INTO faces (...) VALUES (...), with Uuid::parse_str(&face.face_id)?
\* evaluated while the statement's arguments are built.
StoreInsert(p) ==
    /\ pc[p] = "st_insert"
    /\ LET face == Unwrap(call[p].face)
           uuid == ParseUuid(face.face_id)
       IN  \E dbok \in BOOLEAN :
            IF ~IsSome(uuid)
            THEN Finish(p, Err("InvalidUuid")) /\ UNCHANGED faces
            ELSE IF ~dbok
            THEN Finish(p, Err("Database")) /\ UNCHANGED faces
            ELSE IF ViolatesPrimaryKey(faces, Unwrap(uuid))
            THEN Finish(p, Err("UniqueViolation")) /\ UNCHANGED faces
            ELSE /\ faces' = faces \cup {StoreRow(face, Unwrap(uuid))}
                 /\ Finish(p, Ok(<< >>, 0))
    /\ UNCHANGED <<files, call, local>>

-----------------------------------------------------------------------------
(* get_face                                                                *)

GetCall(id) == [NoCall EXCEPT !.op = "get", !.face_id = id]

\* What get_face returns for face_id on a given table, the database
\* answering.
GetFaceResult(table, face_id) ==
    LET uuid == ParseUuid(face_id) IN
    IF ~IsSome(uuid) THEN Err("InvalidUuid")
    ELSE LET rows == SelectById(table, Unwrap(uuid)) IN
         IF rows = {} THEN Ok(None, 0)
         ELSE Ok(Some(RowToFace(CHOOSE r \in rows : TRUE)), 0)

GetFace(p) ==
    \E id \in env.ids[p], dbok \in BOOLEAN :
        /\ Begin(p, GetCall(id))
        /\ IF dbok \/ ~IsSome(ParseUuid(id))
           THEN Finish(p, GetFaceResult(faces, id))
           ELSE Finish(p, Err("Database"))
        /\ UNCHANGED <<faces, files, local>>

-----------------------------------------------------------------------------
(* delete_face                                                             *)

DeleteCall(id) == [NoCall EXCEPT !.op = "delete", !.face_id = id]

\* SELECT source_image FROM faces WHERE id = $1 (fetch_optional)
DeleteSelect(p) ==
    \E id \in env.ids[p], dbok \in BOOLEAN :
        LET uuid == ParseUuid(id) IN
        /\ Begin(p, DeleteCall(id))
        /\ IF ~IsSome(uuid)
           THEN Finish(p, Err("InvalidUuid")) /\ UNCHANGED local
           ELSE IF ~dbok
           THEN Finish(p, Err("Database")) /\ UNCHANGED local
           ELSE LET rows == SelectById(faces, Unwrap(uuid))
                    record == IF rows = {} THEN None
                              ELSE Some((CHOOSE r \in rows : TRUE).source_image)
                IN  /\ local' = [local EXCEPT ![p].record = record]
                    /\ pc' = [pc EXCEPT ![p] =
                                IF IsSome(record) THEN "dl_remove" ELSE "dl_delete"]
                    /\ UNCHANGED res
        /\ UNCHANGED <<faces, files>>

\* fs::remove_file(path): removes the file, or fails (the file is missing,
\* or the file system refuses).
RemoveFile(fs, path, io) ==
    IF io /\ fs[path] # Absent THEN [fs EXCEPT ![path] = Absent] ELSE fs

RemoveFileFails(fs, path, io) == ~(io /\ fs[path] # Absent)

\* if let Some(record) = record { fs::remove_file(&record.source_image) }:
\* a failure is printed and the method goes on.
DeleteRemoveFile(p) ==
    /\ pc[p] = "dl_remove"
    /\ \E io \in BOOLEAN :
        LET path == Unwrap(local[p].record) IN
        /\ files' = RemoveFile(files, path, io)
        /\ local' = [local EXCEPT
                        ![p].removed = ~RemoveFileFails(files, path, io),
                        ![p].rmFailed = RemoveFileFails(files, path, io)]
    /\ pc' = [pc EXCEPT ![p] = "dl_delete"]
    /\ UNCHANGED <<faces, call, res, env>>

\* Mutant: a failed remove_file aborts delete_face before the DELETE.
DeleteRow_AbortsOnRemoveFailure(p) ==
    /\ pc[p] = "dl_delete"
    /\ LET uuid == ParseUuid(call[p].face_id) IN
       \E dbok \in BOOLEAN :
            IF local[p].rmFailed
            THEN Finish(p, Err("Io")) /\ UNCHANGED faces
            ELSE IF ~dbok
            THEN Finish(p, Err("Database")) /\ UNCHANGED faces
            ELSE /\ faces' = faces \ SelectById(faces, Unwrap(uuid))
                 /\ Finish(p, Ok(<< >>, 0))
    /\ UNCHANGED <<files, call, local>>

\* DELETE FROM faces WHERE id = $1
DeleteRow(p) ==
    /\ pc[p] = "dl_delete"
    /\ LET uuid == ParseUuid(call[p].face_id) IN
       \E dbok \in BOOLEAN :
            IF ~IsSome(uuid)
            THEN Finish(p, Err("InvalidUuid")) /\ UNCHANGED faces
            ELSE IF ~dbok
            THEN Finish(p, Err("Database")) /\ UNCHANGED faces
            ELSE /\ faces' = faces \ SelectById(faces, Unwrap(uuid))
                 /\ Finish(p, Ok(<< >>, 0))
    /\ UNCHANGED <<files, call, local>>

-----------------------------------------------------------------------------
(* SQL text and bound parameters                                           *)

\* The column types of CREATE TABLE faces.
ColumnType ==
    [c \in {"id", "embedding", "name", "tags", "timestamp", "source_image",
            "confidence", "metadata"} |->
        CASE c = "id" -> "UUID"
          [] c = "embedding" -> "FLOAT[]"
          [] c = "name" -> "TEXT"
          [] c = "tags" -> "TEXT[]"
          [] c = "timestamp" -> "TIMESTAMPTZ"
          [] c = "source_image" -> "TEXT"
          [] c = "confidence" -> "FLOAT"
          [] OTHER -> "JSONB"]

\* Every parameter update_face and search_faces bind is a Rust String
\* (params is a Vec<String>), which sqlx sends with type TEXT.  A String is
\* modelled as the sequence of its pieces.
BoundType == "TEXT"

EmptyString == << >>

\* tags.join(",")
RECURSIVE Join(_)
Join(tags) ==
    IF tags = << >> THEN EmptyString
    ELSE IF Len(tags) = 1 THEN <<tags[1]>>
    ELSE <<tags[1], ",">> \o Join(Tail(tags))

\* confidence.to_string(), start_date.to_string(), ...
NumToString(n) == <<ToString(n)>>

\* .bind(params.get(k - 1).unwrap_or(&String::new())): placeholder $k gets
\* the k-th pushed parameter, or the empty string when fewer were pushed.
Bound(params, k) == IF k <= Len(params) THEN params[k] ELSE EmptyString

\* Postgres accepts `column = $k` in SET, and `column op $k` in WHERE, only
\* when the parameter's declared type is the column's type: there is no
\* implicit cast from text to text[], float or timestamptz.
TypeChecks(column) == ColumnType[column] = BoundType

-----------------------------------------------------------------------------
(* update_face                                                             *)

UpdateCall(id, updates) ==
    [NoCall EXCEPT !.op = "update", !.face_id = id, !.updates = updates]

\* The SET items update_face pushes onto the SQL text: the column and the
\* placeholder the text names for it (name = $1, tags = $2, confidence = $3).
UpdateSets(updates) ==
    (IF IsSome(updates.name) THEN {[column |-> "name", placeholder |-> 1]} ELSE {})
    \cup
    (IF IsSome(updates.tags) THEN {[column |-> "tags", placeholder |-> 2]} ELSE {})
    \cup
    (IF IsSome(updates.confidence)
        THEN {[column |-> "confidence", placeholder |-> 3]} ELSE {})

\* The params vector: one String per supplied field, in push order.
UpdateParams(updates) ==
    (IF IsSome(updates.name) THEN <<Unwrap(updates.name)>> ELSE << >>)
    \o
    (IF IsSome(updates.tags) THEN <<Join(Unwrap(updates.tags))>> ELSE << >>)
    \o
    (IF IsSome(updates.confidence)
        THEN <<NumToString(Unwrap(updates.confidence))>> ELSE << >>)

\* Mutant: the statement also sets timestamp (to the epoch).
ApplySets_SetsTimestamp(r, sets, params) ==
    IF \E s \in sets : s.column = "name"
    THEN [r EXCEPT !.name =
            Some(Bound(params, (CHOOSE s \in sets : s.column = "name").placeholder)),
                   !.timestamp = 0]
    ELSE r

\* A row after the SET items are applied.  Only a TEXT column can take a
\* bound String, so name is the one column a statement that type-checks
\* can assign.
ApplySets(r, sets, params) ==
    IF \E s \in sets : s.column = "name"
    THEN [r EXCEPT !.name =
            Some(Bound(params, (CHOOSE s \in sets : s.column = "name").placeholder))]
    ELSE r

\* The database executing "UPDATE faces SET <items> WHERE id = $4".
\* With no item, sql.pop() removes the T of SET and the statement does not
\* parse.  A statement that matches no row succeeds and changes nothing.
ExecUpdate(table, sets, params, uuid) ==
    IF sets = {}
    THEN [err |-> "Syntax", table |-> table]
    ELSE IF \E s \in sets : ~TypeChecks(s.column)
    THEN [err |-> "Datatype", table |-> table]
    ELSE [err |-> "",
          table |-> {IF r.id = uuid THEN ApplySets(r, sets, params) ELSE r :
                        r \in table}]

\* The Result update_face returns once the statement has run without error.
UpdateResult(table, uuid) == Ok(<< >>, 0)

UpdateFace(p) ==
    \E id \in env.ids[p], dbok \in BOOLEAN,
       updates \in {u \in UpdateInputs :
                       IsSome(u.confidence) =>
                           Unwrap(u.confidence) \in env.confidences} :
        LET uuid == ParseUuid(id)
            out == ExecUpdate(faces, UpdateSets(updates), UpdateParams(updates),
                              Unwrap(uuid))
        IN
        /\ Begin(p, UpdateCall(id, updates))
        /\ IF ~IsSome(uuid)
           THEN Finish(p, Err("InvalidUuid")) /\ UNCHANGED faces
           ELSE IF ~dbok
           THEN Finish(p, Err("Database")) /\ UNCHANGED faces
           ELSE IF out.err # ""
           THEN Finish(p, Err(out.err)) /\ UNCHANGED faces
           ELSE /\ faces' = out.table
                /\ Finish(p, UpdateResult(faces, Unwrap(uuid)))
        /\ UNCHANGED <<files, local>>

-----------------------------------------------------------------------------
(* cleanup_old_faces                                                       *)

CleanupCall(now, days) ==
    [NoCall EXCEPT !.op = "cleanup", !.now = now, !.days = days]

\* chrono::Utc::now() - chrono::Duration::days(days)
Cutoff(now, days) == now - days

\* Mutant: the comparison is <=, so a record exactly at the cutoff goes too.
OldRows_Inclusive(table, cutoff) == {r \in table : r.timestamp <= cutoff}

\* The rows "DELETE FROM faces WHERE timestamp < $1" removes.
OldRows(table, cutoff) == {r \in table : r.timestamp < cutoff}

\* The orders in which RETURNING may list a set of rows.
Orders(S) ==
    {q \in [1..Cardinality(S) -> S] : \A x \in S : \E i \in DOMAIN q : q[i] = x}

\* DELETE ... RETURNING source_image (fetch_all): one statement removes the
\* old rows and returns their image paths.
CleanupDelete(p) ==
    \E now \in 0..MaxTime, days \in 0..MaxDays, dbok \in BOOLEAN :
        LET old == OldRows(faces, Cutoff(now, days)) IN
        /\ Begin(p, CleanupCall(now, days))
        /\ IF ~dbok
           THEN Finish(p, Err("Database")) /\ UNCHANGED <<faces, local>>
           ELSE IF old = {}
           THEN Finish(p, Ok(<< >>, 0)) /\ UNCHANGED <<faces, local>>
           ELSE \E records \in Orders(old) :
                    /\ faces' = faces \ old
                    /\ local' = [local EXCEPT
                                    ![p].pending =
                                        [i \in DOMAIN records |-> records[i].source_image],
                                    ![p].count = Len(records)]
                    /\ pc' = [pc EXCEPT ![p] = "cl_remove"]
                    /\ UNCHANGED res
        /\ UNCHANGED files

\* One turn of `for record in &records`: remove_file, a failure is printed;
\* after the last record the method returns Ok(records.len()).
CleanupRemoveFile(p) ==
    /\ pc[p] = "cl_remove"
    /\ \E io \in BOOLEAN :
        LET path == Head(local[p].pending)
            rest == Tail(local[p].pending)
        IN
        /\ files' = RemoveFile(files, path, io)
        /\ local' = [local EXCEPT
                        ![p].pending = rest,
                        ![p].removed = @ \/ ~RemoveFileFails(files, path, io),
                        ![p].rmFailed = @ \/ RemoveFileFails(files, path, io)]
        /\ IF rest = << >>
           THEN Finish(p, Ok(<< >>, local[p].count))
           ELSE UNCHANGED <<pc, res, env>>
    /\ UNCHANGED <<faces, call>>

-----------------------------------------------------------------------------
(* search_faces                                                            *)

SearchCall(query) == [NoCall EXCEPT !.op = "search", !.query = query]

\* The filters callers send: every combination of present and absent fields.
QueryInputs ==
    { SearchQuery(n, t, s, e, c) :
        n \in {None, Some(<<"a">>)},
        t \in {None, Some(<<"vip">>)},
        s \in {None, Some(2)},
        e \in {None, Some(1)},
        c \in {None, Some(75)} }

\* ILIKE compares without regard to case.
Lower(ch) == IF ch = "A" THEN "a" ELSE IF ch = "B" THEN "b" ELSE ch

\* text ILIKE pattern: % matches any run of characters, _ any one character.
RECURSIVE ILike(_, _)
ILike(text, pattern) ==
    IF pattern = << >> THEN text = << >>
    ELSE IF Head(pattern) = "%"
    THEN \/ ILike(text, Tail(pattern))
         \/ text # << >> /\ ILike(Tail(text), pattern)
    ELSE IF Head(pattern) = "_"
    THEN text # << >> /\ ILike(Tail(text), Tail(pattern))
    ELSE /\ text # << >>
         /\ Lower(Head(text)) = Lower(Head(pattern))
         /\ ILike(Tail(text), Tail(pattern))

\* format!("%{}%", name)
ContainsPattern(name) == <<"%">> \o name \o <<"%">>

\* The conditions search_faces pushes onto the SQL text, each with the
\* placeholder the text names for it.
SearchClauses(query) ==
    (IF IsSome(query.name)
        THEN {[column |-> "name", op |-> "ILIKE", placeholder |-> 1]} ELSE {})
    \cup
    (IF IsSome(query.tags)
        THEN {[column |-> "tags", op |-> "&&", placeholder |-> 2]} ELSE {})
    \cup
    (IF IsSome(query.start_date)
        THEN {[column |-> "timestamp", op |-> ">=", placeholder |-> 3]} ELSE {})
    \cup
    (IF IsSome(query.end_date)
        THEN {[column |-> "timestamp", op |-> "<=", placeholder |-> 4]} ELSE {})
    \cup
    (IF IsSome(query.min_confidence)
        THEN {[column |-> "confidence", op |-> ">=", placeholder |-> 5]} ELSE {})

\* The params vector: one String per present filter, in push order.
SearchParams(query) ==
    (IF IsSome(query.name) THEN <<ContainsPattern(Unwrap(query.name))>> ELSE << >>)
    \o
    (IF IsSome(query.tags) THEN <<Join(Unwrap(query.tags))>> ELSE << >>)
    \o
    (IF IsSome(query.start_date)
        THEN <<NumToString(Unwrap(query.start_date))>> ELSE << >>)
    \o
    (IF IsSome(query.end_date)
        THEN <<NumToString(Unwrap(query.end_date))>> ELSE << >>)
    \o
    (IF IsSome(query.min_confidence)
        THEN <<NumToString(Unwrap(query.min_confidence))>> ELSE << >>)

\* A condition on a row.  Only a TEXT column can be compared with a bound
\* String, so ILIKE on name is the one condition a statement that
\* type-checks can hold; a NULL name matches no pattern.
ClauseHolds(r, clause, params) ==
    /\ clause.column = "name"
    /\ IsSome(r.name)
    /\ ILike(Unwrap(r.name), Bound(params, clause.placeholder))

\* ORDER BY timestamp DESC: any listing of the rows in which no row comes
\* before a row with a later timestamp.
OrderByTimestampDesc(rows) ==
    {q \in Orders(rows) :
        \A i, j \in DOMAIN q : i < j => q[i].timestamp >= q[j].timestamp}

\* The database executing "SELECT * FROM faces WHERE 1=1 <conditions>
\* ORDER BY timestamp DESC": the error, or the rows selected.
ExecSearch(table, clauses, params) ==
    IF \E c \in clauses : ~TypeChecks(c.column)
    THEN [err |-> "Datatype", rows |-> {}]
    ELSE [err |-> "",
          rows |-> {r \in table : \A c \in clauses : ClauseHolds(r, c, params)}]

SearchFaces(p) ==
    \E query \in QueryInputs, dbok \in BOOLEAN :
        LET out == ExecSearch(faces, SearchClauses(query), SearchParams(query)) IN
        /\ Begin(p, SearchCall(query))
        /\ IF ~dbok
           THEN Finish(p, Err("Database"))
           ELSE IF out.err # ""
           THEN Finish(p, Err(out.err))
           ELSE \E records \in OrderByTimestampDesc(out.rows) :
                    Finish(p, Ok([i \in DOMAIN records |-> RowToFace(records[i])], 0))
        /\ UNCHANGED <<faces, files, local>>

\* The caller takes the result; the next call starts from fresh locals.
Return(p) ==
    /\ pc[p] = "done"
    /\ pc' = [pc EXCEPT ![p] = "idle"]
    /\ call' = [call EXCEPT ![p] = NoCall]
    /\ res' = [res EXCEPT ![p] = NoRes]
    /\ local' = [local EXCEPT ![p] = NoLocal]
    /\ UNCHANGED <<faces, files, env>>

Next ==
    /\ \E p \in Procs :
        \/ StoreCopy(p)
        \/ StoreInsert(p)
        \/ GetFace(p)
        \/ DeleteSelect(p)
        \/ DeleteRemoveFile(p)
        \/ DeleteRow(p)
        \/ UpdateFace(p)
        \/ CleanupDelete(p)
        \/ CleanupRemoveFile(p)
        \/ Return(p)
    /\ UNCHANGED <<hub, cmp, gen>>

Spec == Init /\ [][Next]_vars

SpecConc == InitConc /\ [][Next]_vars

\* One caller and one record, with confidences inside and outside [0, 1].
InitRange ==
    /\ InitStore
    /\ env = [callers |-> {"p1"}, ids |-> [p \in Procs |-> {"u1"}],
             confidences |-> Confidences]
    /\ cmp = CmpIdle

SpecRange == InitRange /\ [][Next]_vars

\* Two concurrent callers, each working on a record of its own, with the
\* methods that take a face_id.
InitDistinct ==
    /\ InitStore
    /\ env = [callers |-> Procs,
              ids |-> [p \in Procs |-> IF p = "p1" THEN {"u1"} ELSE {"u2"}],
              confidences |-> ValidConfidences]
    /\ cmp = CmpIdle

NextDistinct ==
    /\ \E p \in Procs :
        \/ StoreCopy(p)
        \/ StoreInsert(p)
        \/ GetFace(p)
        \/ DeleteSelect(p)
        \/ DeleteRemoveFile(p)
        \/ DeleteRow(p)
        \/ UpdateFace(p)
        \/ Return(p)
    /\ UNCHANGED <<hub, cmp, gen>>

SpecDistinct == InitDistinct /\ [][NextDistinct]_vars

\* The rows a table can hold after stores and name updates of the records
\* above: each is the row store_face inserts, with the name it was stored
\* with or the name an update gave it.
TableRows(uuid) ==
    { [StoreRow(f, uuid) EXCEPT !.name = n] :
        f \in {g \in FaceInputs :
                    /\ ParseUuid(g.face_id) = Some(uuid)
                    /\ g.metadata.confidence \in ValidConfidences
                    /\ SourceContent[g.metadata.source_image] # Absent},
        n \in {None, Some(NameAl), Some(NameBo)} }

\* A table any sequence of stores and updates may have left (at most one
\* row per id, every row's artifact on disk), searched by one caller.
InitSearch ==
    /\ faces \in {t \in SUBSET (UNION {TableRows(u) : u \in Uuids}) :
                    \A r1, r2 \in t : r1.id = r2.id => r1 = r2}
    /\ files = [f \in ArtifactPaths |->
                    IF \E r \in faces : r.source_image = f
                    THEN IF (CHOOSE r \in faces : r.source_image = f).embedding = <<1, 0>>
                         THEN "img1" ELSE "img2"
                    ELSE Absent]
    /\ pc = [p \in Procs |-> "idle"]
    /\ call = [p \in Procs |-> NoCall]
    /\ res = [p \in Procs |-> NoRes]
    /\ local = [p \in Procs |-> NoLocal]
    /\ env = [callers |-> {"p1"}, ids |-> [p \in Procs |-> IdStrings],
             confidences |-> ValidConfidences]
    /\ hub = HubNew
    /\ cmp = CmpIdle
    /\ gen = GenIdle

NextSearch ==
    /\ \E p \in Procs : SearchFaces(p) \/ Return(p)
    /\ UNCHANGED <<hub, cmp, gen>>

SpecSearch == InitSearch /\ [][NextSearch]_vars

-----------------------------------------------------------------------------
(* The notification hub: operations                                        *)

storeVars == <<faces, files, pc, call, res, local, env>>

HubCall(op, id) == [op |-> op, id |-> id, outcome |-> "ok"]

\* ws_handler: under the manager's lock, create_connection makes a fresh id
\* and a channel of its own, drops the channel's first receiver and inserts
\* the Sender in the map; ws::start then builds the actor, or fails (`?`)
\* and leaves the entry in the map.
CreateConnection ==
    \E id \in ConnIds \ hub.created, handshake \in BOOLEAN :
        /\ hub' = [hub EXCEPT
                    !.connections = @ \cup {id},
                    !.created = @ \cup {id},
                    !.actor[id] = IF handshake THEN "unstarted" ELSE "none",
                    !.last = HubCall("create", id)]
        /\ UNCHANGED <<storeVars, cmp, gen>>

\* WsConnection::started: self.tx.subscribe() makes the receiver (it sees
\* only messages sent from now on) and spawns the forwarding task.
Started ==
    \E c \in ConnIds :
        /\ hub.actor[c] = "unstarted"
        /\ hub' = [hub EXCEPT !.actor[c] = "running", !.rx[c] = "open"]
        /\ UNCHANGED <<storeVars, cmp, gen>>

\* tx.send(msg) on connection c's channel: with no receiver the send fails
\* and the message is gone; with the channel full the oldest retained
\* message is overwritten and the receiver lags; else the message is kept.
SendTo(h, c, msg) ==
    IF h.rx[c] # "open"
    THEN [buffer |-> h.buffer[c], lagged |-> h.lagged[c]]
    ELSE IF Len(h.buffer[c]) = ChannelCapacity
    THEN [buffer |-> Append(Tail(h.buffer[c]), msg), lagged |-> TRUE]
    ELSE [buffer |-> Append(h.buffer[c], msg), lagged |-> h.lagged[c]]

\* The connections broadcast sends to.
Recipients(h) == h.connections

\* WsManager::broadcast, called by a notify_* helper holding the lock:
\* `let _ = tx.send(msg.clone())` for every Sender in the map.
Broadcast ==
    \E kind \in MsgKinds :
        LET msg == WsMessage(kind, hub.sent + 1) IN
        /\ hub.sent < MaxBroadcasts
        /\ hub' = [hub EXCEPT
                    !.sent = @ + 1,
                    !.buffer = [c \in ConnIds |->
                                  IF c \in Recipients(hub)
                                  THEN SendTo(hub, c, msg).buffer ELSE @[c]],
                    !.lagged = [c \in ConnIds |->
                                  IF c \in Recipients(hub)
                                  THEN SendTo(hub, c, msg).lagged ELSE @[c]],
                    !.last = HubCall("broadcast", "")]
        /\ UNCHANGED <<storeVars, cmp, gen>>

\* Every Sender of c's channel is dropped: the map's and the actor's.
NoSenders(h, c) == c \notin h.connections /\ h.actor[c] \in {"none", "stopped"}

\* Mutant: the forwarding task takes the newest retained message first.
NextMessage_Newest(buffer) == buffer[Len(buffer)]

\* The message rx.recv() returns: the oldest retained one.
NextMessage(buffer) == Head(buffer)

\* The buffer without the message `msg` the receiver took.
Without(buffer, msg) ==
    LET i == CHOOSE k \in DOMAIN buffer : buffer[k] = msg IN
    [j \in 1..(Len(buffer) - 1) |-> IF j < i THEN buffer[j] ELSE buffer[j + 1]]

\* One turn of `while let Ok(msg) = rx.recv().await { addr.do_send(msg) }`:
\* a lagging receiver gets Err(Lagged) and a closed empty channel
\* Err(Closed), and either ends the loop and drops the receiver; otherwise
\* the oldest message goes to the actor, which writes it to the client if it
\* is still running.
Recv ==
    \E c \in ConnIds :
        /\ hub.rx[c] = "open"
        /\ IF hub.lagged[c]
           THEN hub' = [hub EXCEPT !.rx[c] = "ended", !.buffer[c] = << >>,
                                   !.lagged[c] = FALSE]
           ELSE IF hub.buffer[c] # << >>
           THEN LET msg == NextMessage(hub.buffer[c]) IN
                hub' = [hub EXCEPT
                          !.buffer[c] = Without(@, msg),
                          !.delivered[c] =
                              IF hub.actor[c] = "running" THEN Append(@, msg) ELSE @]
           ELSE /\ NoSenders(hub, c)
                /\ hub' = [hub EXCEPT !.rx[c] = "ended"]
        /\ UNCHANGED <<storeVars, cmp, gen>>

\* StreamHandler::handle on ws::Message::Close (or the stream ending):
\* ctx.stop().  The actor and its Sender go away; nothing touches the map.
Close ==
    \E c \in ConnIds :
        /\ hub.actor[c] = "running"
        /\ hub' = [hub EXCEPT !.actor[c] = "stopped"]
        /\ UNCHANGED <<storeVars, cmp, gen>>

\* Mutant: removing an id that is not in the map is treated as an error.
RemoveOutcome_Strict(connections, id) ==
    IF id \in connections THEN "ok" ELSE "panic"

\* self.connections.remove(id) returns (): nothing to report, whatever id.
RemoveOutcome(connections, id) == "ok"

\* HashMap::remove(id): the map without the entry of id, if it had one.
RemoveFrom(connections, id) == connections \ {id}

\* WsManager::remove_connection(id), for any id string.
RemoveConnection ==
    \E id \in ConnIds \cup {UnknownConn} :
        /\ hub' = [hub EXCEPT
                    !.connections = RemoveFrom(@, id),
                    !.last = [op |-> "remove", id |-> id,
                              outcome |-> RemoveOutcome(hub.connections, id)]]
        /\ UNCHANGED <<storeVars, cmp, gen>>

\* The hub alone: the store is idle.
InitHub ==
    /\ InitStore
    /\ env = NoCallers
    /\ cmp = CmpIdle

NextHub ==
    \/ CreateConnection
    \/ Started
    \/ Broadcast
    \/ Recv
    \/ Close
    \/ RemoveConnection

SpecHub == InitHub /\ [][NextHub]_vars

-----------------------------------------------------------------------------
(* The embedding comparator: operations                                    *)

\* An f32 result of cosine_similarity: NaN, or the number dot / sqrt(m)
\* with m > 0, kept as the pair (dot, m) so that comparisons are exact.
NaN == [nan |-> TRUE, dot |-> 0, m |-> 1]
Number(dot, m) == [nan |-> FALSE, dot |-> dot, m |-> m]

\* x * |x|: strictly increasing, so it compares numbers by their squares.
SignSq(x) == IF x < 0 THEN 0 - (x * x) ELSE x * x

\* s1 > s2 on f32: false as soon as one side is NaN.
ScoreGreater(s1, s2) ==
    /\ ~s1.nan
    /\ ~s2.nan
    /\ SignSq(s1.dot) * s2.m > SignSq(s2.dot) * s1.m

\* s > threshold on f32, the threshold being num/den.
AboveThreshold(s, threshold) ==
    /\ ~s.nan
    /\ SignSq(s.dot * threshold.den) > SignSq(threshold.num) * s.m

\* s < threshold on f32.
BelowThreshold(s, threshold) ==
    /\ ~s.nan
    /\ SignSq(s.dot * threshold.den) < SignSq(threshold.num) * s.m

RECURSIVE SumTo(_, _)
\* f(1) + ... + f(n): the accumulation of the for loop.
SumTo(f, n) == IF n = 0 THEN 0 ELSE SumTo(f, n - 1) + f[n]

\* cosine_similarity: the loop runs over the zip of the two slices (the
\* length of the shorter); the division is not guarded, and 0.0 / 0.0 is NaN
\* (dot_product is 0 whenever one of the norms is).
cosine_similarity(emb1, emb2) ==
    LET n == IF Len(emb1) < Len(emb2) THEN Len(emb1) ELSE Len(emb2)
        dot_product == SumTo([i \in 1..n |-> emb1[i] * emb2[i]], n)
        norm1 == SumTo([i \in 1..n |-> emb1[i] * emb1[i]], n)
        norm2 == SumTo([i \in 1..n |-> emb2[i] * emb2[i]], n)
    IN  IF norm1 * norm2 = 0 THEN NaN ELSE Number(dot_product, norm1 * norm2)

\* Mutant: find_matches keeps the entries below the threshold.
Keeps_Below(similarity, threshold) == BelowThreshold(similarity, threshold)

\* `if similarity > threshold`
Keeps(similarity, threshold) == AboveThreshold(similarity, threshold)

\* The comparator |a, b| b.1.partial_cmp(&a.1): x sorts before y exactly
\* when x's score is the greater one.
ComesBefore(x, y) == ScoreGreater(x.score, y.score)

\* x put in its place in an already sorted list: before the first element
\* it sorts before, so after every element that compares equal to it.
InsertSorted(sorted, x) ==
    LET before == {i \in DOMAIN sorted : ComesBefore(x, sorted[i])}
        at == IF before = {} THEN Len(sorted) + 1
              ELSE CHOOSE i \in before : \A j \in before : i <= j
    IN  [k \in 1..(Len(sorted) + 1) |->
            IF k < at THEN sorted[k]
            ELSE IF k = at THEN x ELSE sorted[k - 1]]

RECURSIVE SortBy(_)
\* matches.sort_by(..): a stable sort.
SortBy(matches) ==
    IF matches = << >> THEN << >>
    ELSE InsertSorted(SortBy(SubSeq(matches, 1, Len(matches) - 1)),
                      matches[Len(matches)])

RECURSIVE Matches(_, _, _, _)
\* The for loop of find_matches over the first n entries: the (face_id,
\* similarity) pairs pushed, in corpus order.
Matches(query, corpus, threshold, n) ==
    IF n = 0 THEN << >>
    ELSE LET similarity == cosine_similarity(query, corpus[n])
             rest == Matches(query, corpus, threshold, n - 1)
         IN  IF Keeps(similarity, threshold)
             THEN Append(rest, [face_id |-> CorpusEntry(corpus, n).face_id,
                                score |-> similarity])
             ELSE rest

find_matches(query_embedding, database_embeddings, threshold) ==
    SortBy(Matches(query_embedding, database_embeddings, threshold,
                   Len(database_embeddings)))

\* A caller computes the similarity of the query and the i-th corpus entry.
CosineSimilarity ==
    \E i \in DOMAIN cmp.corpus :
        /\ cmp' = [cmp EXCEPT
                    !.sim = Some([emb1 |-> cmp.query, emb2 |-> cmp.corpus[i],
                                  value |-> cosine_similarity(cmp.query,
                                                              cmp.corpus[i])])]
        /\ UNCHANGED <<storeVars, hub, gen>>

\* A caller runs find_matches on the query and the corpus with threshold t.
FindMatches ==
    \E t \in Thresholds :
        /\ cmp' = [cmp EXCEPT
                    !.found[t] = Some(find_matches(cmp.query, cmp.corpus, t))]
        /\ UNCHANGED <<storeVars, hub, gen>>

\* The comparator alone, on every query and corpus.
InitCmp ==
    /\ InitStore
    /\ env = NoCallers
    /\ \E query \in Vectors, corpus \in Corpora :
           cmp = [CmpIdle EXCEPT !.query = query, !.corpus = corpus]

NextCmp == CosineSimilarity \/ FindMatches

SpecCmp == InitCmp /\ [][NextCmp]_vars

-----------------------------------------------------------------------------
(* cluster_embeddings                                                      *)

\* Mutant: an entry pushed to a cluster is not marked as assigned.
Assign_Forgets(assigned, j) == assigned

\* assigned[j] = true
Assign(assigned, j) == assigned \cup {j}

RECURSIVE InnerLoop(_, _, _, _, _, _)
\* for j in (i + 1)..embeddings.len(), from j on: an unassigned entry whose
\* similarity with embeddings[i] exceeds the threshold is pushed to the
\* cluster and marked.
InnerLoop(embeddings, threshold, i, j, cluster, assigned) ==
    IF j > Len(embeddings) THEN [cluster |-> cluster, assigned |-> assigned]
    ELSE IF j \in assigned
    THEN InnerLoop(embeddings, threshold, i, j + 1, cluster, assigned)
    ELSE IF AboveThreshold(cosine_similarity(embeddings[i], embeddings[j]),
                           threshold)
    THEN InnerLoop(embeddings, threshold, i, j + 1,
                   Append(cluster, CorpusEntry(embeddings, j).face_id),
                   Assign(assigned, j))
    ELSE InnerLoop(embeddings, threshold, i, j + 1, cluster, assigned)

RECURSIVE OuterLoop(_, _, _, _, _)
\* for i in 0..embeddings.len(), from i on: an unassigned entry opens a
\* cluster, which the inner loop fills and which is then pushed.
OuterLoop(embeddings, threshold, i, clusters, assigned) ==
    IF i > Len(embeddings) THEN clusters
    ELSE IF i \in assigned
    THEN OuterLoop(embeddings, threshold, i + 1, clusters, assigned)
    ELSE LET inner == InnerLoop(embeddings, threshold, i, i + 1,
                                <<CorpusEntry(embeddings, i).face_id>>,
                                Assign(assigned, i))
         IN  OuterLoop(embeddings, threshold, i + 1,
                       Append(clusters, inner.cluster), inner.assigned)

cluster_embeddings(embeddings, threshold) ==
    OuterLoop(embeddings, threshold, 1, << >>, {})

\* A caller clusters the corpus with threshold t.
ClusterEmbeddings ==
    \E t \in Thresholds :
        /\ cmp' = [cmp EXCEPT
                    !.clusters[t] = Some(cluster_embeddings(cmp.corpus, t))]
        /\ UNCHANGED <<storeVars, hub, gen>>

\* Clustering alone, on every corpus.
InitCluster ==
    /\ InitStore
    /\ env = NoCallers
    /\ \E corpus \in ClusterCorpora :
           cmp = [CmpIdle EXCEPT !.corpus = corpus]

NextCluster == ClusterEmbeddings

SpecCluster == InitCluster /\ [][NextCluster]_vars

-----------------------------------------------------------------------------
(* EmbeddingGenerator::generate                                            *)

\* The L2 normalisation of postprocess_output: x / norm for every x, with
\* no check of norm; with a zero norm every component is 0.0 / 0.0 = NaN.
Normalize(embedding) ==
    LET sum_squares == SumTo([i \in DOMAIN embedding |-> embedding[i] * embedding[i]],
                             Len(embedding))
    IN  GenOk([raw |-> embedding, sum_squares |-> sum_squares,
               nan |-> sum_squares = 0])

postprocess_output(output) ==
    IF output.kind # "tensor" THEN GenErr("InvalidOutputType")
    ELSE IF Len(output.data) # EmbeddingSize THEN GenErr("UnexpectedSize")
    ELSE Normalize(output.data)

\* generate up to `self.session.run(..)?`: preprocessing and inference; an
\* error of either is returned at once.
GenerateRun ==
    \E output \in BackendOutputs :
        /\ gen.at = "idle"
        /\ gen' = IF output.kind \in {"preprocess_error", "run_error"}
                  THEN [at |-> "done", output |-> output,
                        result |-> GenErr("Backend")]
                  ELSE [at |-> "ran", output |-> output, result |-> GenPending]
        /\ UNCHANGED <<storeVars, hub, cmp>>

\* generate's last line: self.postprocess_output(&outputs).
GeneratePostprocess ==
    /\ gen.at = "ran"
    /\ gen' = [gen EXCEPT !.at = "done", !.result = postprocess_output(gen.output)]
    /\ UNCHANGED <<storeVars, hub, cmp>>

\* The caller takes the result; the generator is ready for the next call.
GenerateReturn ==
    /\ gen.at = "done"
    /\ gen' = GenIdle
    /\ UNCHANGED <<storeVars, hub, cmp>>

\* The generator alone.
InitGen ==
    /\ InitStore
    /\ env = NoCallers
    /\ cmp = CmpIdle

NextGen == GenerateRun \/ GeneratePostprocess \/ GenerateReturn

SpecGen == InitGen /\ [][NextGen]_vars

-----------------------------------------------------------------------------
(* analyze_image (api/rest.rs): the ingest handler                         *)

\* generate as one call: an error of preprocessing or inference is
\* returned by `?`, else the result of postprocess_output.
generate(output) ==
    IF output.kind \in {"preprocess_error", "run_error"}
    THEN GenErr("Backend")
    ELSE postprocess_output(output)

\* The upload the handler wrote under upload_dir, and what it holds.
UploadPath(file_id) == <<"uploads", file_id>>
UploadContent == "img1"

\* chrono::Utc::now() when the handler builds the record.
UploadTime == 1

\* The FaceEmbedding the handler builds around the generated embedding.
IngestFace(file_id, embedding, now) ==
    FaceEmbedding(file_id, embedding,
                  FaceMetadata(None, << >>, now, UploadPath(file_id), 100))

\* file_id = Uuid::new_v4(): an id nothing has used.
FreshId(id) ==
    /\ IsSome(ParseUuid(id))
    /\ UuidToString(Unwrap(ParseUuid(id))) = id
    /\ ~ViolatesPrimaryKey(faces, Unwrap(ParseUuid(id)))
    /\ files[StoragePath(id)] = Absent

\* analyze_image up to the generate call: the upload is written and the
\* embedding generated; a failure is answered with 400 Bad Request.
AnalyzeGenerate(p) ==
    \E file_id \in {id \in env.ids[p] : FreshId(id)}, output \in BackendOutputs :
        LET result == generate(output)
            now == UploadTime
        IN
        /\ Begin(p, [NoCall EXCEPT
                        !.op = "ingest", !.face_id = file_id, !.now = now,
                        !.face = IF result.kind = "Ok"
                                 THEN Some(IngestFace(file_id, result.vector, now))
                                 ELSE None])
        /\ gen' = [at |-> "done", output |-> output, result |-> result]
        /\ IF result.kind = "Ok"
           THEN pc' = [pc EXCEPT ![p] = "an_store"] /\ UNCHANGED res
           ELSE /\ pc' = [pc EXCEPT ![p] = "done"]
                /\ res' = [res EXCEPT ![p] = Err("BadRequest")]
        /\ UNCHANGED <<faces, files, local>>

\* database.store_face(face.clone()): its fs::copy of the upload.
AnalyzeStoreCopy(p) ==
    /\ pc[p] = "an_store"
    /\ \E io \in BOOLEAN :
        IF io
        THEN /\ files' = [files EXCEPT ![StoragePath(call[p].face_id)] = UploadContent]
             /\ pc' = [pc EXCEPT ![p] = "st_insert"]
             /\ UNCHANGED res
        ELSE /\ pc' = [pc EXCEPT ![p] = "done"]
             /\ res' = [res EXCEPT ![p] = Err("Io")]
             /\ UNCHANGED files
    /\ UNCHANGED <<faces, call, local, env, gen>>

\* One client uploading images; the store's INSERT is store_face's own, and
\* after it the handler only builds its response.
InitIngest ==
    /\ InitStore
    /\ env = [callers |-> {"p1"}, ids |-> [p \in Procs |-> Uuids],
              confidences |-> ValidConfidences]
    /\ cmp = CmpIdle

NextIngest ==
    /\ \E p \in Procs :
        \/ AnalyzeGenerate(p)
        \/ AnalyzeStoreCopy(p)
        \/ StoreInsert(p) /\ UNCHANGED gen
        \/ Return(p) /\ UNCHANGED gen
    /\ UNCHANGED <<hub, cmp>>

SpecIngest == InitIngest /\ [][NextIngest]_vars

-----------------------------------------------------------------------------
(* Steps, as the properties below recognise them                           *)

\* Caller p takes the step that starts method op (its first await).
Starts(p, op) == pc[p] = "idle" /\ call'[p].op = op

\* Caller p takes the step it is suspended at, and the method returns.
Returns(p, at) == pc[p] = at /\ pc'[p] = "done"

HasRow(table, face_id) ==
    /\ IsSome(ParseUuid(face_id))
    /\ SelectById(table, Unwrap(ParseUuid(face_id))) # {}

RowOf(table, face_id) ==
    CHOOSE r \in SelectById(table, Unwrap(ParseUuid(face_id))) : TRUE

-----------------------------------------------------------------------------
(* store_face: artifact first, then the row                                *)

\* C1: store writes the artifact before it inserts the row: the copy step
\* never touches the table and either writes the artifact and goes on to the
\* INSERT, or returns an error with table and artifacts unchanged; and the
\* INSERT adds a row only while the artifact is in place.
C1_ArtifactBeforeRow ==
    [][\A p \in Procs :
        /\ Starts(p, "store") =>
            LET face == Unwrap(call'[p].face)
                path == StoragePath(face.face_id)
            IN  /\ faces' = faces
                /\ \/ /\ pc'[p] = "st_insert"
                      /\ files'[path] # Absent
                      /\ files'[path] = SourceContent[face.metadata.source_image]
                   \/ /\ pc'[p] = "done"
                      /\ ~res'[p].ok
                      /\ files' = files
        /\ (pc[p] = "st_insert" /\ faces' # faces) =>
            files[StoragePath(call[p].face_id)] # Absent
      ]_vars

\* A store whose copy failed has returned an error; other rows are still
\* there and the id has no row.
C1_Witness ==
    \E p \in Procs :
        /\ pc[p] = "done"
        /\ call[p].op = "store"
        /\ res[p].err = "Io"
        /\ call[p].face_id = "u1"
        /\ ~HasRow(faces, "u1")
        /\ HasRow(faces, "u2")

\* C2: every row has its paired artifact, in every reachable state.
C2_RowImpliesArtifact ==
    \A r \in faces : files[r.source_image] # Absent

\* C3: delete removes the row first: it never removes the artifact while the
\* row exists, and a failed row deletion leaves the artifact in place.
C3_DeleteRowFirst ==
    [][\A p \in Procs :
        /\ (pc[p] = "dl_remove" /\ files' # files) =>
            ~HasRow(faces, call[p].face_id)
        /\ (Returns(p, "dl_delete") /\ ~res'[p].ok) => ~local[p].removed
      ]_vars

\* C4: when delete returns Ok the row is gone, so get returns absent; a
\* failed artifact removal is not an error (the only error the final step
\* returns is the database's) and does not keep the row.
C4_DeleteThenGetAbsent ==
    [][\A p \in Procs :
        Returns(p, "dl_delete") =>
            /\ res'[p].err \in {"", "Database"}
            /\ res'[p].ok =>
                GetFaceResult(faces', call[p].face_id) = Ok(None, 0)
      ]_vars

\* delete returned Ok although remove_file failed: the row is absent and the
\* artifact is still on disk.
C4_Witness ==
    \E p \in Procs :
        /\ pc[p] = "done"
        /\ call[p].op = "delete"
        /\ res[p].ok
        /\ local[p].rmFailed
        /\ files[Unwrap(local[p].record)] # Absent
        /\ GetFaceResult(faces, call[p].face_id) = Ok(None, 0)

\* C5 (as claimed): after a successful store(r), get(r.face_id) returns a
\* record equal to r in every field.
C5_RoundTripExact ==
    [][\A p \in Procs :
        (Returns(p, "st_insert") /\ res'[p].ok) =>
            GetFaceResult(faces', call[p].face_id) = Ok(call[p].face, 0)
      ]_vars

\* C5 (amended): after a successful store(r), get(r.face_id) returns a
\* record with r's embedding, name, tags, timestamp and confidence, whose
\* face_id is the canonical form of r.face_id and whose source_image is the
\* path of the stored artifact.
C5_RoundTrip ==
    [][\A p \in Procs :
        (Returns(p, "st_insert") /\ res'[p].ok) =>
            LET r == Unwrap(call[p].face)
                got == GetFaceResult(faces', r.face_id)
            IN  /\ got.ok
                /\ IsSome(got.val)
                /\ Unwrap(got.val).face_id = UuidToString(Unwrap(ParseUuid(r.face_id)))
                /\ Unwrap(got.val).embedding = r.embedding
                /\ Unwrap(got.val).metadata.name = r.metadata.name
                /\ Unwrap(got.val).metadata.tags = r.metadata.tags
                /\ Unwrap(got.val).metadata.timestamp = r.metadata.timestamp
                /\ Unwrap(got.val).metadata.confidence = r.metadata.confidence
                /\ Unwrap(got.val).metadata.source_image = StoragePath(r.face_id)
      ]_vars

\* A store of a named, tagged record under a non-canonical id has succeeded
\* and its row is in the table.
C5_Witness ==
    \E p \in Procs :
        /\ pc[p] = "done"
        /\ call[p].op = "store"
        /\ res[p].ok
        /\ call[p].face_id = "U1"
        /\ IsSome(Unwrap(call[p].face).metadata.name)
        /\ HasRow(faces, "U1")
        /\ RowToFace(RowOf(faces, "U1")) # Unwrap(call[p].face)

\* C6: an INSERT for an id that has a row fails (with the primary key's
\* unique violation, when the database answers) and leaves the table as it
\* was; the table never holds two rows with one id.
C6_DuplicateRejected ==
    [][/\ \A p \in Procs :
            (pc[p] = "st_insert" /\ HasRow(faces, call[p].face_id)) =>
                /\ pc'[p] = "done"
                /\ res'[p].err \in {"UniqueViolation", "Database"}
                /\ faces' = faces
       /\ \A r1, r2 \in faces' : r1.id = r2.id => r1 = r2
      ]_vars

\* A store of a different record under an id that has a row was rejected as
\* a duplicate.
C6_Witness ==
    \E p \in Procs :
        /\ pc[p] = "done"
        /\ call[p].op = "store"
        /\ res[p].err = "UniqueViolation"
        /\ HasRow(faces, call[p].face_id)
        /\ RowOf(faces, call[p].face_id).embedding
              # Unwrap(call[p].face).embedding

-----------------------------------------------------------------------------
(* update_face                                                             *)

\* A field after an update that supplies `given` for it.
Overwritten(old, given, new) ==
    IF IsSome(given) THEN new = Unwrap(given) ELSE new = old

\* C7: an update of an existing id with at least one field supplied, the
\* database being up, overwrites exactly the supplied fields.
C7_UpdateOverwritesSupplied ==
    [][\A p \in Procs :
        (/\ Starts(p, "update")
         /\ HasRow(faces, call'[p].face_id)
         /\ call'[p].updates # NoUpdates
         /\ res'[p].err # "Database") =>
            LET id == call'[p].face_id
                u == call'[p].updates
                old == RowOf(faces, id)
            IN  /\ HasRow(faces', id)
                /\ RowOf(faces', id).name =
                      (IF IsSome(u.name) THEN u.name ELSE old.name)
                /\ Overwritten(old.tags, u.tags, RowOf(faces', id).tags)
                /\ Overwritten(old.confidence, u.confidence,
                               RowOf(faces', id).confidence)
                /\ RowOf(faces', id).embedding = old.embedding
                /\ RowOf(faces', id).timestamp = old.timestamp
                /\ RowOf(faces', id).source_image = old.source_image
      ]_vars

\* C8: an update of an id that has no row when the statement runs does not
\* report success.
C8_UpdateMissingFails ==
    [][\A p \in Procs :
        (Starts(p, "update") /\ ~HasRow(faces, call'[p].face_id)) =>
            ~res'[p].ok
      ]_vars

\* C9: an update racing a delete: an update never creates a row, and an
\* update applied after the delete removed the row does not report success.
C9_UpdateAfterDelete ==
    [][\A p \in Procs :
        Starts(p, "update") =>
            /\ {r.id : r \in faces'} \subseteq {r.id : r \in faces}
            /\ (\E q \in Procs \ {p} :
                    /\ call[q].op = "delete"
                    /\ call[q].face_id = call'[p].face_id
                    /\ pc[q] = "done"
                    /\ res[q].ok
                    /\ IsSome(local[q].record)
                    /\ ~HasRow(faces, call'[p].face_id))
                => ~res'[p].ok
      ]_vars

-----------------------------------------------------------------------------
(* search_faces: what a filter selects                                     *)

\* text contains part, compared without regard to case.
ContainsNoCase(text, part) ==
    \E i \in 0..(Len(text) - Len(part)) :
        \A j \in 1..Len(part) : Lower(text[i + j]) = Lower(part[j])

\* A row satisfies every present field of the filter.
Satisfies(r, query) ==
    /\ IsSome(query.name) =>
        IsSome(r.name) /\ ContainsNoCase(Unwrap(r.name), Unwrap(query.name))
    /\ IsSome(query.tags) =>
        \E i \in DOMAIN r.tags, j \in DOMAIN Unwrap(query.tags) :
            r.tags[i] = Unwrap(query.tags)[j]
    /\ IsSome(query.start_date) => r.timestamp >= Unwrap(query.start_date)
    /\ IsSome(query.end_date) => r.timestamp <= Unwrap(query.end_date)
    /\ IsSome(query.min_confidence) => r.confidence >= Unwrap(query.min_confidence)

\* C10: for every combination of present and absent filter fields, search
\* (the database being up) returns exactly the stored records that satisfy
\* every present filter, each once, ordered by timestamp descending.
C10_SearchReturnsMatches ==
    [][\A p \in Procs :
        (Starts(p, "search") /\ res'[p].err # "Database") =>
            LET query == call'[p].query
                val == res'[p].val
                want == {RowToFace(r) : r \in {x \in faces : Satisfies(x, query)}}
            IN  /\ res'[p].ok
                /\ {val[i] : i \in DOMAIN val} = want
                /\ Len(val) = Cardinality(want)
                /\ \A i, j \in DOMAIN val :
                        i < j => val[i].metadata.timestamp >= val[j].metadata.timestamp
      ]_vars

-----------------------------------------------------------------------------
(* cleanup_old_faces                                                       *)

\* C11: cleanup(days), the database being up, removes exactly the rows with
\* timestamp < now - days and leaves every other row as it was; it returns
\* the number of rows it removed, and the remove_file turns that follow
\* (failing or not) change neither the table nor that count.
C11_CleanupRemovesOld ==
    [][\A p \in Procs :
        /\ (Starts(p, "cleanup") /\ res'[p].err # "Database") =>
            LET cutoff == call'[p].now - call'[p].days
                gone == {r \in faces : r.timestamp < cutoff}
            IN  /\ faces' = faces \ gone
                /\ IF gone = {}
                   THEN pc'[p] = "done" /\ res'[p].ok /\ res'[p].count = 0
                   ELSE /\ pc'[p] = "cl_remove"
                        /\ local'[p].count = Cardinality(gone)
                        /\ Len(local'[p].pending) = Cardinality(gone)
        /\ (Starts(p, "cleanup") /\ res'[p].err = "Database") => faces' = faces
        /\ pc[p] = "cl_remove" =>
            /\ faces' = faces
            /\ local'[p].count = local[p].count
            /\ pc'[p] = "done" <=> Len(local[p].pending) = 1
            /\ pc'[p] = "done" => res'[p].ok /\ res'[p].count = local[p].count
      ]_vars

\* A cleanup removed one of two records and returned 1 although removing the
\* image failed; the newer record is still stored.
C11_Witness ==
    \E p \in Procs :
        /\ pc[p] = "done"
        /\ call[p].op = "cleanup"
        /\ res[p].ok
        /\ res[p].count = 1
        /\ local[p].rmFailed
        /\ ~HasRow(faces, "u1")
        /\ HasRow(faces, "u2")

-----------------------------------------------------------------------------
(* NotificationHub                                                         *)

\* A broadcast step, and whether a buffer retains the message numbered seq.
BroadcastStep == hub'.sent = hub.sent + 1
Retains(buffer, seq) == \E i \in DOMAIN buffer : buffer[i].seq = seq
HasSpace(c) == Len(hub.buffer[c]) < ChannelCapacity

\* C12: broadcast makes the event receivable on every connection that is
\* registered (created, not removed) at the call and whose buffer is not
\* full; no broadcast after registration is lost.
C12_BroadcastReachesRegistered ==
    [][BroadcastStep =>
        \A c \in hub.connections :
            HasSpace(c) => Retains(hub'.buffer[c], hub'.sent)]_vars

\* C13: a subscriber that receives two events receives them in the order of
\* their broadcast calls, whatever creates and removes are interleaved.
C13_DeliveredInCallOrder ==
    \A c \in ConnIds :
        \A i, j \in DOMAIN hub.delivered[c] :
            i < j => hub.delivered[c][i].seq < hub.delivered[c][j].seq

C13_Witness ==
    \E c \in ConnIds :
        /\ Len(hub.delivered[c]) >= 2
        /\ hub.created = ConnIds
        /\ hub.connections # hub.created

\* C14: once remove_connection(id) has returned, a later broadcast puts
\* nothing on connection id, and every other registered connection (with
\* room in its buffer) still gets the event.
C14_RemovedGetsNothingOthersDo ==
    [][(BroadcastStep /\ hub.created \ hub.connections # {}) =>
        /\ \A id \in hub.created \ hub.connections :
               hub'.buffer[id] = hub.buffer[id]
        /\ \A c \in hub.connections :
               HasSpace(c) => Retains(hub'.buffer[c], hub'.sent)]_vars

\* A remove_connection(id) call that changes something the model records.
RemoveStep(id) ==
    /\ hub'.last.op = "remove"
    /\ hub'.last.id = id
    /\ (hub'.last # hub.last \/ hub'.connections # hub.connections)

\* C15: remove_connection(id) on an id that is not registered (already
\* removed, or never registered) reports no error and leaves the registry
\* as it was; removing a registered id twice is the same as removing it once.
C15_RemoveIdempotent ==
    [][\A id \in ConnIds \cup {UnknownConn} :
        LET once == RemoveFrom(hub.connections, id) IN
        /\ RemoveFrom(once, id) = once
        /\ RemoveOutcome(once, id) = "ok"
        /\ id \notin hub.connections =>
               /\ once = hub.connections
               /\ RemoveOutcome(hub.connections, id) = "ok"
        /\ RemoveStep(id) =>
               /\ hub'.connections = once
               /\ hub'.last.outcome = "ok"
               /\ hub' = [hub EXCEPT !.connections = once, !.last = hub'.last]
      ]_vars

C15_Witness ==
    /\ hub.last = [op |-> "remove", id |-> UnknownConn, outcome |-> "ok"]
    /\ hub.connections # {}
    /\ hub.created \ hub.connections # {}

\* C16: a broadcast made while some subscriber's buffer is full returns
\* without error; that subscriber never receives this event, nobody
\* receives an event twice, and every other registered subscriber with
\* buffer space gets the event.
C16_SlowConsumerIsolated ==
    [][(BroadcastStep /\ \E s \in hub.connections : ~HasSpace(s)) =>
        /\ hub'.last.outcome = "ok"
        /\ \A c \in ConnIds :
               \A i, j \in DOMAIN hub'.delivered[c] :
                   i # j => hub'.delivered[c][i] # hub'.delivered[c][j]
        /\ \A c \in hub.connections :
               HasSpace(c) => Retains(hub'.buffer[c], hub'.sent)]_vars

\* The program itself has no step left to take for connection c.
Settled(c) ==
    /\ hub.actor[c] # "unstarted"
    /\ ~ (hub.rx[c] = "open"
            /\ (hub.lagged[c] \/ hub.buffer[c] # << >> \/ NoSenders(hub, c)))

\* C17: once a connection's transport has closed and the program has done
\* all it does about it, the connection id is no longer in the registry.
C17_ClosedLeavesRegistry ==
    \A c \in ConnIds :
        (hub.actor[c] = "stopped" /\ Settled(c)) => c \notin hub.connections

-----------------------------------------------------------------------------
(* EmbeddingComparator                                                     *)

\* A vector of zero norm: all components zero, or none at all.
ZeroNorm(v) == \A i \in DOMAIN v : v[i] = 0

\* C18: cosine_similarity(a, b) is a number for all inputs, and is exactly 0
\* whenever a or b has zero norm (all-zero vector or empty vector).
C18_ZeroNormGivesZero ==
    IsSome(cmp.sim) =>
        LET s == Unwrap(cmp.sim) IN
        /\ ~s.value.nan
        /\ (ZeroNorm(s.emb1) \/ ZeroNorm(s.emb2)) => s.value.dot = 0

\* The similarity the contract gives: 0 for a zero norm, the cosine else.
ContractSimilarity(a, b) ==
    IF cosine_similarity(a, b).nan THEN Number(0, 1) ELSE cosine_similarity(a, b)

SameScore(s1, s2) == ~s1.nan /\ ~s2.nan /\ SignSq(s1.dot) * s2.m = SignSq(s2.dot) * s1.m

\* The position in the corpus of the entry with this face_id.
CorpusIndex(face_id) == face_id[2]

\* C19: find_matches returns exactly the (id, score) pairs of the corpus
\* entries whose cosine similarity to the query is strictly greater than
\* the threshold, by descending score, equal scores in corpus order; an
\* empty corpus gives an empty list.
C19_FindMatchesExact ==
    \A t \in Thresholds :
        IsSome(cmp.found[t]) =>
            LET result == Unwrap(cmp.found[t])
                wanted == {i \in DOMAIN cmp.corpus :
                              AboveThreshold(
                                  ContractSimilarity(cmp.query, cmp.corpus[i]), t)}
            IN  /\ {result[k].face_id : k \in DOMAIN result}
                       = {CorpusId(i) : i \in wanted}
                /\ Len(result) = Cardinality(wanted)
                /\ \A k \in DOMAIN result :
                       SameScore(result[k].score,
                                 ContractSimilarity(
                                     cmp.query,
                                     cmp.corpus[CorpusIndex(result[k].face_id)]))
                /\ \A k, l \in DOMAIN result :
                       k < l =>
                           /\ ~ScoreGreater(result[l].score, result[k].score)
                           /\ SameScore(result[k].score, result[l].score) =>
                                  CorpusIndex(result[k].face_id)
                                      < CorpusIndex(result[l].face_id)
                /\ cmp.corpus = << >> => result = << >>

\* t1 <= t2 for thresholds num/den.
ThresholdLeq(t1, t2) == t1.num * t2.den <= t2.num * t1.den

\* C20: for the same query and corpus and thresholds t1 <= t2, the result
\* for t2 has no more entries than the result for t1, and every id in it is
\* in the result for t1.
C20_MonotonicInThreshold ==
    \A t1, t2 \in Thresholds :
        (IsSome(cmp.found[t1]) /\ IsSome(cmp.found[t2]) /\ ThresholdLeq(t1, t2)) =>
            LET r1 == Unwrap(cmp.found[t1])
                r2 == Unwrap(cmp.found[t2])
            IN  /\ Len(r2) <= Len(r1)
                /\ {r2[k].face_id : k \in DOMAIN r2}
                       \subseteq {r1[k].face_id : k \in DOMAIN r1}

C20_Witness ==
    \E t1, t2 \in Thresholds :
        /\ IsSome(cmp.found[t1])
        /\ IsSome(cmp.found[t2])
        /\ ThresholdLeq(t1, t2)
        /\ Len(Unwrap(cmp.found[t2])) = 1
        /\ Len(Unwrap(cmp.found[t1])) = 2

\* The corpus positions of a cluster's members, in the cluster's order.
Members(cluster) == [k \in DOMAIN cluster |-> CorpusIndex(cluster[k])]

\* C21: cluster(corpus, threshold) is a partition of the corpus: every
\* entry is in exactly one cluster, no cluster is empty, an empty corpus
\* gives no cluster and a one-entry corpus one cluster of size 1.
C21_ClusterIsPartition ==
    \A t \in Thresholds :
        IsSome(cmp.clusters[t]) =>
            LET clusters == Unwrap(cmp.clusters[t]) IN
            /\ \A c \in DOMAIN clusters : clusters[c] # << >>
            /\ \A i \in DOMAIN cmp.corpus :
                   Cardinality({<<c, k>> \in (DOMAIN clusters) \X (DOMAIN cmp.corpus) :
                                   /\ k \in DOMAIN clusters[c]
                                   /\ clusters[c][k] = CorpusId(i)}) = 1
            /\ \A c \in DOMAIN clusters : \A k \in DOMAIN clusters[c] :
                   CorpusIndex(clusters[c][k]) \in DOMAIN cmp.corpus
            /\ cmp.corpus = << >> => clusters = << >>
            /\ Len(cmp.corpus) = 1 => clusters = << <<CorpusId(1)>> >>

C21_Witness ==
    \E t \in Thresholds :
        /\ IsSome(cmp.clusters[t])
        /\ Len(cmp.corpus) = 3
        /\ Len(Unwrap(cmp.clusters[t])) = 2
        /\ Len(Unwrap(cmp.clusters[t])[1]) = 2

\* The contract's "similarity of entries i and j exceeds the threshold".
Similar(i, j, t) ==
    AboveThreshold(ContractSimilarity(cmp.corpus[i], cmp.corpus[j]), t)

\* C22: clusters are opened in corpus order by the first entry not yet
\* assigned (the seed); an entry joins the cluster of the earliest seed
\* before it whose similarity to it exceeds the threshold, compared with
\* the seed only, and opens a cluster of its own if there is none.
C22_GreedySeedBased ==
    \A t \in Thresholds :
        IsSome(cmp.clusters[t]) =>
            LET clusters == Unwrap(cmp.clusters[t])
                seed(c) == CorpusIndex(clusters[c][1])
            IN  /\ \A c, d \in DOMAIN clusters : c < d => seed(c) < seed(d)
                /\ \A c \in DOMAIN clusters :
                       \A k, l \in DOMAIN clusters[c] :
                           k < l => Members(clusters[c])[k] < Members(clusters[c])[l]
                /\ \A c \in DOMAIN clusters : \A k \in DOMAIN clusters[c] :
                       LET j == CorpusIndex(clusters[c][k]) IN
                       /\ k > 1 => Similar(seed(c), j, t)
                       /\ \A d \in DOMAIN clusters :
                              (d < c /\ seed(d) < j) => ~Similar(seed(d), j, t)

-----------------------------------------------------------------------------
(* EmbeddingGenerator                                                      *)

ZeroL2Norm(data) == \A i \in DOMAIN data : data[i] = 0

\* C23: generate returns an embedding only after validation: an output of
\* a length other than D fails (shape mismatch), an output of zero L2 norm
\* fails (degenerate embedding), a backend error fails, every returned
\* embedding has length D and none comes from a division by a zero norm.
C23_GenerateValidates ==
    gen.at = "done" =>
        /\ gen.output.kind \in {"preprocess_error", "run_error"} =>
               gen.result.kind = "Backend"
        /\ (gen.output.kind = "tensor" /\ Len(gen.output.data) # EmbeddingSize) =>
               gen.result.kind = "UnexpectedSize"
        /\ (gen.output.kind = "tensor" /\ Len(gen.output.data) = EmbeddingSize
                /\ ZeroL2Norm(gen.output.data)) =>
               gen.result.kind \notin {"Ok", "pending"}
        /\ gen.result.kind = "Ok" =>
               /\ Len(gen.result.vector.raw) = EmbeddingSize
               /\ ~gen.result.vector.nan
               /\ gen.result.vector.sum_squares # 0

-----------------------------------------------------------------------------
(* Stored records: what can change                                         *)

\* Caller p takes the step that runs an update of the row with key id.
UpdateStepOn(p, id) ==
    /\ Starts(p, "update")
    /\ ParseUuid(call'[p].face_id) = Some(id)

\* C24: from store to delete, the face_id, embedding and timestamp of a
\* record never change, whatever store, update, delete, search and cleanup
\* run; name, tags and confidence change only through an update of that id.
C24_IdentityImmutable ==
    [][\A r \in faces :
        SelectById(faces', r.id) # {} =>
            LET new == CHOOSE x \in SelectById(faces', r.id) : TRUE IN
            /\ Cardinality(SelectById(faces', r.id)) = 1
            /\ RowToFace(new).face_id = RowToFace(r).face_id
            /\ new.embedding = r.embedding
            /\ new.timestamp = r.timestamp
            /\ new.source_image = r.source_image
            /\ new # r => \E p \in Procs : UpdateStepOn(p, r.id)
      ]_vars

C24_Witness ==
    \E p \in Procs :
        /\ pc[p] = "done"
        /\ call[p].op = "update"
        /\ res[p].ok
        /\ HasRow(faces, call[p].face_id)
        /\ RowOf(faces, call[p].face_id).name = Some(NameBo)
        /\ RowOf(faces, call[p].face_id).timestamp = 2

-----------------------------------------------------------------------------
(* Validation of the inputs                                                *)

\* A confidence in [0, 1] (in percent).
InRange(confidence) == confidence >= 0 /\ confidence <= 100

\* C25: every stored record has its confidence in [0, 1]: a store or an
\* update with a confidence outside [0, 1] is rejected with a validation
\* error and leaves the store as it was.
C25_ConfidenceInRange ==
    [][/\ \A r \in faces' : InRange(r.confidence)
       /\ \A p \in Procs :
            /\ (Starts(p, "store")
                    /\ ~InRange(Unwrap(call'[p].face).metadata.confidence)) =>
                   /\ pc'[p] = "done"
                   /\ res'[p].err = "Validation"
                   /\ faces' = faces
                   /\ files' = files
            /\ (Starts(p, "update")
                    /\ IsSome(call'[p].updates.confidence)
                    /\ ~InRange(Unwrap(call'[p].updates.confidence))) =>
                   /\ res'[p].err = "Validation"
                   /\ faces' = faces
                   /\ files' = files
      ]_vars

\* C26: a store, get, update or delete called with a malformed face_id
\* fails with a validation error and changes nothing: no row is created,
\* changed or removed and no artifact is written or removed.
C26_MalformedIdRejected ==
    [][\A p \in Procs :
        (/\ pc[p] = "idle"
         /\ call'[p].op \in {"store", "get", "update", "delete"}
         /\ ~IsSome(ParseUuid(call'[p].face_id))) =>
            /\ pc'[p] = "done"
            /\ res'[p].err = "InvalidUuid"
            /\ faces' = faces
            /\ files' = files
      ]_vars

-----------------------------------------------------------------------------
(* Concurrent callers on distinct ids                                      *)

\* The face_id caller p works on, its rows and its artifact.
IdOf(p) == CHOOSE id \in env.ids[p] : TRUE
RowsOf(table, p) == SelectById(table, Unwrap(ParseUuid(IdOf(p))))
ArtifactOf(fs, p) == fs[StoragePath(IdOf(p))]

\* What caller p and its record look like, whatever the others do.
ViewOf(p) ==
    <<pc[p], call[p], res[p], local[p], RowsOf(faces, p), ArtifactOf(files, p)>>

\* The state a completed method of caller p leaves for its id, when it is
\* the only one working on that id.
AsIfAlone(p) ==
    (pc[p] = "done" /\ res[p].ok) =>
        /\ call[p].op = "store" =>
               /\ RowsOf(faces, p) =
                      {StoreRow(Unwrap(call[p].face), Unwrap(ParseUuid(IdOf(p))))}
               /\ ArtifactOf(files, p) =
                      SourceContent[Unwrap(call[p].face).metadata.source_image]
        /\ call[p].op = "delete" =>
               /\ RowsOf(faces, p) = {}
               /\ local[p].removed => ArtifactOf(files, p) = Absent
        /\ (call[p].op = "update" /\ IsSome(call[p].updates.name)) =>
               \A r \in RowsOf(faces, p) : r.name = call[p].updates.name

\* C27: callers working on pairwise distinct ids do not disturb each other:
\* a step of one caller changes neither another caller's row and artifact
\* nor its progress, and every method leaves for its id what it leaves when
\* it runs alone, in every interleaving of the steps of store, update and
\* delete.
C27_DistinctIdsIndependent ==
    [][\A p \in Procs :
        /\ (\E q \in Procs \ {p} : pc'[q] # pc[q]) => ViewOf(p)' = ViewOf(p)
        /\ AsIfAlone(p)'
      ]_vars

C27_Witness ==
    /\ pc["p1"] = "done" /\ call["p1"].op = "store" /\ res["p1"].ok
    /\ pc["p2"] = "dl_delete" /\ local["p2"].removed
    /\ RowsOf(faces, "p1") # {}
    /\ RowsOf(faces, "p2") # {}

-----------------------------------------------------------------------------
(* The ingest handler and the hub                                          *)

\* C28: an ingest generates the embedding, stores the record and then
\* broadcasts the change: an ingest whose store succeeded has broadcast
\* FaceDetected by the time it answers, and nothing is broadcast for a
\* record whose generate or store failed.
C28_IngestBroadcasts ==
    /\ \A p \in Procs :
        (call[p].op = "ingest" /\ pc[p] = "done" /\ res[p].ok) =>
            /\ gen.result.kind = "Ok"
            /\ HasRow(faces, call[p].face_id)
            /\ hub.sent >= 1
            /\ hub.last.op = "broadcast"
    /\ hub.sent <= Cardinality(faces)

-----------------------------------------------------------------------------
(* store_face on an id that has a row                                      *)

\* C29: a store that fails because the face_id already has a row leaves
\* the artifact of the existing record as it was: neither its copy step nor
\* its rejected INSERT changes the content of that artifact.
C29_FailedStoreKeepsArtifact ==
    [][\A p \in Procs :
        /\ (Starts(p, "store") /\ HasRow(faces, call'[p].face_id)) =>
               LET artifact == RowOf(faces, call'[p].face_id).source_image IN
               files'[artifact] = files[artifact]
        /\ (pc[p] = "st_insert" /\ HasRow(faces, call[p].face_id)) =>
               /\ ~res'[p].ok
               /\ files' = files
      ]_vars

-----------------------------------------------------------------------------
(* A slow subscriber                                                       *)

\* C30: a connection that stays registered and connected keeps its
\* delivery for good: having missed events because its buffer overflowed
\* does not end the forwarding of later events to it.
C30_SlowSubscriberRecovers ==
    [][\A c \in hub.connections :
        (hub.actor[c] = "running" /\ hub.rx[c] = "open"
            /\ c \in hub'.connections /\ hub'.actor[c] = "running") =>
                hub'.rx[c] = "open"
      ]_vars

====
